---- MODULE Spec2Model ----
(***************************************************************************)
(* The global UI-state store of app/contexts/GlobalProvider.tsx: the       *)
(* reducer, the action table, and the three effects of GlobalProvider      *)
(* (hydration, cart-ready with its fallback timer, iframe visibility).     *)
(***************************************************************************)
EXTENDS Integers, Sequences, FiniteSets, TLC

VARIABLES
    state,        \* the reducer state held by useReducer
    cartIsIdle,   \* cart.status === 'idle' as seen by the last render
    timers,       \* pending setTimeout callbacks, in scheduling order: ms left
    iframes,      \* per iframe of the document: carries the '!invisible' class
    mounted,      \* the provider's mount effects have run
    waited,       \* ms since the oldest cart-ready effect run after which
                  \* isCartReady has not been true yet; -1 when there is none
    hydrationDispatches,  \* how often the hydration effect has dispatched
    prev,         \* the state of the first render; for the reducer alone, the
                  \* state argument of its last application
    applied,      \* reducer alone: the action argument of its last application
    error         \* the error the last dispatch threw, or NoError

vars == <<state, cartIsIdle, timers, iframes, mounted, waited, hydrationDispatches,
          prev, applied, error>>

----------------------------------------------------------------------------
(* JavaScript values *)

Null == [kind |-> "null"]
Undefined == [kind |-> "undefined"]
Node(id) == [kind |-> "node", id |-> id]
Obj(entries) == [kind |-> "object", entries |-> entries]
EmptyObj == Obj({})

\* {...v}: a fresh object with v's own entries; spreading undefined or null
\* yields the empty object.
Spread(v) == IF v.kind = "object" THEN Obj(v.entries) ELSE EmptyObj

----------------------------------------------------------------------------
(* Bounds of the model *)

\* how many fallback timers may be pending at once
MaxTimers == 2

\* the delay of the fallback timer, in ms
FallbackDelay == 1000

\* the clock advances in steps of this many ms
TickMs == FallbackDelay \div 2

IframeIds == {"frame1", "frame2"}
Children == {Null, Node("A")}
PropsArgs == {Undefined, EmptyObj, Obj({<<"a", 1>>}), Obj({<<"b", 1>>})}
Customers == {Undefined, Null, [kind |-> "customer", id |-> "c1"]}
\* what useRootLoaderData() returns
LoaderData ==
    {[isPreviewModeEnabled |-> FALSE, settings |-> Obj({<<"header", 1>>})],
     [isPreviewModeEnabled |-> TRUE, settings |-> Undefined]}

----------------------------------------------------------------------------
(* State *)

globalState ==
    [cartOpen |-> FALSE,
     desktopMenuOpen |-> FALSE,
     iframesHidden |-> FALSE,
     mobileMenuOpen |-> FALSE,
     modal |-> [children |-> Null, props |-> EmptyObj],
     promobarOpen |-> TRUE,
     searchOpen |-> FALSE,
     previewModeCustomer |-> Undefined,
     isHydrated |-> FALSE]

\* a bug the initial state could have: isCartReady starts false whatever the
\* cart's status
InitialState_CartNotReady(settings, isPreviewModeEnabled, idle) ==
    [cartOpen |-> globalState.cartOpen,
     desktopMenuOpen |-> globalState.desktopMenuOpen,
     iframesHidden |-> globalState.iframesHidden,
     mobileMenuOpen |-> globalState.mobileMenuOpen,
     modal |-> globalState.modal,
     promobarOpen |-> globalState.promobarOpen,
     searchOpen |-> globalState.searchOpen,
     previewModeCustomer |-> globalState.previewModeCustomer,
     isHydrated |-> globalState.isHydrated,
     settings |-> settings,
     isPreviewModeEnabled |-> isPreviewModeEnabled,
     isCartReady |-> FALSE]

\* {...globalState, settings, isPreviewModeEnabled, isCartReady: cartIsIdle}
InitialState(settings, isPreviewModeEnabled, idle) ==
    [cartOpen |-> globalState.cartOpen,
     desktopMenuOpen |-> globalState.desktopMenuOpen,
     iframesHidden |-> globalState.iframesHidden,
     mobileMenuOpen |-> globalState.mobileMenuOpen,
     modal |-> globalState.modal,
     promobarOpen |-> globalState.promobarOpen,
     searchOpen |-> globalState.searchOpen,
     previewModeCustomer |-> globalState.previewModeCustomer,
     isHydrated |-> globalState.isHydrated,
     settings |-> settings,
     isPreviewModeEnabled |-> isPreviewModeEnabled,
     isCartReady |-> idle]

----------------------------------------------------------------------------
(* The reducer, one operator per case of its switch *)

\* a bug OPEN_CART could have: the modal's content is left as it is
OPEN_CART_KeepsModal(s) ==
    [s EXCEPT !.cartOpen = TRUE,
              !.desktopMenuOpen = FALSE,
              !.mobileMenuOpen = FALSE,
              !.searchOpen = FALSE]

OPEN_CART(s) ==
    [s EXCEPT !.cartOpen = TRUE,
              !.desktopMenuOpen = FALSE,
              !.mobileMenuOpen = FALSE,
              !.modal = [children |-> Null, props |-> EmptyObj],
              !.searchOpen = FALSE]

CLOSE_CART(s) == [s EXCEPT !.cartOpen = FALSE]

OPEN_DESKTOP_MENU(s) ==
    [s EXCEPT !.cartOpen = FALSE,
              !.desktopMenuOpen = TRUE,
              !.mobileMenuOpen = FALSE,
              !.modal = [children |-> Null, props |-> EmptyObj],
              !.searchOpen = FALSE]

CLOSE_DESKTOP_MENU(s) == [s EXCEPT !.desktopMenuOpen = FALSE]

OPEN_MOBILE_MENU(s) ==
    [s EXCEPT !.cartOpen = FALSE,
              !.desktopMenuOpen = FALSE,
              !.mobileMenuOpen = TRUE,
              !.modal = [children |-> Null, props |-> EmptyObj],
              !.searchOpen = FALSE]

CLOSE_MOBILE_MENU(s) == [s EXCEPT !.mobileMenuOpen = FALSE]

\* a bug OPEN_MODAL could have: the given props are merged into the old ones
OPEN_MODAL_MergesProps(s, payload) ==
    [s EXCEPT !.cartOpen = FALSE,
              !.desktopMenuOpen = FALSE,
              !.mobileMenuOpen = FALSE,
              !.modal = [children |-> payload.children,
                         props |-> Obj(s.modal.props.entries
                                       \cup Spread(payload.props).entries)],
              !.searchOpen = FALSE]

OPEN_MODAL(s, payload) ==
    [s EXCEPT !.cartOpen = FALSE,
              !.desktopMenuOpen = FALSE,
              !.mobileMenuOpen = FALSE,
              !.modal = [children |-> payload.children,
                         props |-> Spread(payload.props)],
              !.searchOpen = FALSE]

\* a bug CLOSE_MODAL could have: it closes every panel
CLOSE_MODAL_ClosesAll(s) ==
    [s EXCEPT !.cartOpen = FALSE,
              !.desktopMenuOpen = FALSE,
              !.mobileMenuOpen = FALSE,
              !.modal = [children |-> Null, props |-> EmptyObj],
              !.searchOpen = FALSE]

CLOSE_MODAL(s) == [s EXCEPT !.modal = [children |-> Null, props |-> EmptyObj]]

\* a bug TOGGLE_PROMOBAR could have: it flips the flag, whatever the payload
TOGGLE_PROMOBAR_Flips(s, payload) == [s EXCEPT !.promobarOpen = ~s.promobarOpen]

TOGGLE_PROMOBAR(s, payload) == [s EXCEPT !.promobarOpen = payload]

TOGGLE_IFRAMES_HIDDEN(s, payload) == [s EXCEPT !.iframesHidden = payload]

\* a bug OPEN_SEARCH could have: the cart drawer is left as it is
OPEN_SEARCH_KeepsCart(s) ==
    [s EXCEPT !.desktopMenuOpen = FALSE,
              !.mobileMenuOpen = FALSE,
              !.modal = [children |-> Null, props |-> EmptyObj],
              !.searchOpen = TRUE]

OPEN_SEARCH(s) ==
    [s EXCEPT !.cartOpen = FALSE,
              !.desktopMenuOpen = FALSE,
              !.mobileMenuOpen = FALSE,
              !.modal = [children |-> Null, props |-> EmptyObj],
              !.searchOpen = TRUE]

CLOSE_SEARCH(s) == [s EXCEPT !.searchOpen = FALSE]

\* a bug CLOSE_ALL could have: the modal keeps its props
CLOSE_ALL_KeepsModalProps(s) ==
    [s EXCEPT !.cartOpen = FALSE,
              !.desktopMenuOpen = FALSE,
              !.mobileMenuOpen = FALSE,
              !.modal = [children |-> Null, props |-> s.modal.props],
              !.searchOpen = FALSE]

CLOSE_ALL(s) ==
    [s EXCEPT !.cartOpen = FALSE,
              !.desktopMenuOpen = FALSE,
              !.mobileMenuOpen = FALSE,
              !.modal = [children |-> Null, props |-> EmptyObj],
              !.searchOpen = FALSE]

\* a bug SET_PREVIEW_MODE_CUSTOMER could have: the payload lands in settings
SET_PREVIEW_MODE_CUSTOMER_IntoSettings(s, payload) == [s EXCEPT !.settings = payload]

SET_PREVIEW_MODE_CUSTOMER(s, payload) == [s EXCEPT !.previewModeCustomer = payload]

\* a bug SET_IS_CART_READY could have: it sets isHydrated as well
SET_IS_CART_READY_AlsoHydrates(s, payload) ==
    [s EXCEPT !.isCartReady = payload, !.isHydrated = payload]

SET_IS_CART_READY(s, payload) == [s EXCEPT !.isCartReady = payload]

SET_IS_HYDRATED(s, payload) == [s EXCEPT !.isHydrated = payload]

\* default: throw new Error(`Invalid Context action of type: ${action.type}`)
Thrown(type) == [thrown |-> type]

Threw(result) == "thrown" \in DOMAIN result

\* a bug the reducer could have: the default case returns the state
reducer_DefaultReturnsState(s, action) ==
    CASE action.type = "OPEN_CART" -> OPEN_CART(s)
      [] action.type = "CLOSE_CART" -> CLOSE_CART(s)
      [] action.type = "OPEN_DESKTOP_MENU" -> OPEN_DESKTOP_MENU(s)
      [] action.type = "CLOSE_DESKTOP_MENU" -> CLOSE_DESKTOP_MENU(s)
      [] action.type = "OPEN_MOBILE_MENU" -> OPEN_MOBILE_MENU(s)
      [] action.type = "CLOSE_MOBILE_MENU" -> CLOSE_MOBILE_MENU(s)
      [] action.type = "OPEN_MODAL" -> OPEN_MODAL(s, action.payload)
      [] action.type = "CLOSE_MODAL" -> CLOSE_MODAL(s)
      [] action.type = "TOGGLE_PROMOBAR" -> TOGGLE_PROMOBAR(s, action.payload)
      [] action.type = "TOGGLE_IFRAMES_HIDDEN" -> TOGGLE_IFRAMES_HIDDEN(s, action.payload)
      [] action.type = "OPEN_SEARCH" -> OPEN_SEARCH(s)
      [] action.type = "CLOSE_SEARCH" -> CLOSE_SEARCH(s)
      [] action.type = "CLOSE_ALL" -> CLOSE_ALL(s)
      [] action.type = "SET_PREVIEW_MODE_CUSTOMER" -> SET_PREVIEW_MODE_CUSTOMER(s, action.payload)
      [] action.type = "SET_IS_CART_READY" -> SET_IS_CART_READY(s, action.payload)
      [] action.type = "SET_IS_HYDRATED" -> SET_IS_HYDRATED(s, action.payload)
      [] OTHER -> s

reducer(s, action) ==
    CASE action.type = "OPEN_CART" -> OPEN_CART(s)
      [] action.type = "CLOSE_CART" -> CLOSE_CART(s)
      [] action.type = "OPEN_DESKTOP_MENU" -> OPEN_DESKTOP_MENU(s)
      [] action.type = "CLOSE_DESKTOP_MENU" -> CLOSE_DESKTOP_MENU(s)
      [] action.type = "OPEN_MOBILE_MENU" -> OPEN_MOBILE_MENU(s)
      [] action.type = "CLOSE_MOBILE_MENU" -> CLOSE_MOBILE_MENU(s)
      [] action.type = "OPEN_MODAL" -> OPEN_MODAL(s, action.payload)
      [] action.type = "CLOSE_MODAL" -> CLOSE_MODAL(s)
      [] action.type = "TOGGLE_PROMOBAR" -> TOGGLE_PROMOBAR(s, action.payload)
      [] action.type = "TOGGLE_IFRAMES_HIDDEN" -> TOGGLE_IFRAMES_HIDDEN(s, action.payload)
      [] action.type = "OPEN_SEARCH" -> OPEN_SEARCH(s)
      [] action.type = "CLOSE_SEARCH" -> CLOSE_SEARCH(s)
      [] action.type = "CLOSE_ALL" -> CLOSE_ALL(s)
      [] action.type = "SET_PREVIEW_MODE_CUSTOMER" -> SET_PREVIEW_MODE_CUSTOMER(s, action.payload)
      [] action.type = "SET_IS_CART_READY" -> SET_IS_CART_READY(s, action.payload)
      [] action.type = "SET_IS_HYDRATED" -> SET_IS_HYDRATED(s, action.payload)
      [] OTHER -> Thrown(action.type)

----------------------------------------------------------------------------
(* The action table: each entry builds the action it dispatches *)

openCart == [type |-> "OPEN_CART"]
closeCart == [type |-> "CLOSE_CART"]
openDesktopMenu == [type |-> "OPEN_DESKTOP_MENU"]
closeDesktopMenu == [type |-> "CLOSE_DESKTOP_MENU"]
openMobileMenu == [type |-> "OPEN_MOBILE_MENU"]
closeMobileMenu == [type |-> "CLOSE_MOBILE_MENU"]
openModal(children, props) ==
    [type |-> "OPEN_MODAL", payload |-> [children |-> children, props |-> props]]
closeModal == [type |-> "CLOSE_MODAL"]
togglePromobar(isOpen) == [type |-> "TOGGLE_PROMOBAR", payload |-> isOpen]
toggleIframesHidden(isHidden) == [type |-> "TOGGLE_IFRAMES_HIDDEN", payload |-> isHidden]
openSearch == [type |-> "OPEN_SEARCH"]
closeSearch == [type |-> "CLOSE_SEARCH"]
closeAll == [type |-> "CLOSE_ALL"]
setPreviewModeCustomer(customer) == [type |-> "SET_PREVIEW_MODE_CUSTOMER", payload |-> customer]
setIsCartReady(isReady) == [type |-> "SET_IS_CART_READY", payload |-> isReady]
setIsHydrated(isHydrated) == [type |-> "SET_IS_HYDRATED", payload |-> isHydrated]

\* Every action a consumer can dispatch through the action table, in two
\* sets: the entries whose payload is a boolean, and the others.
actionsBoolean ==
    {togglePromobar(b) : b \in BOOLEAN}
    \cup {toggleIframesHidden(b) : b \in BOOLEAN}
    \cup {setIsCartReady(b) : b \in BOOLEAN}
    \cup {setIsHydrated(b) : b \in BOOLEAN}

actionsOther ==
    {openCart, closeCart, openDesktopMenu, closeDesktopMenu, openMobileMenu,
     closeMobileMenu, closeModal, openSearch, closeSearch, closeAll}
    \cup {openModal(c, p) : c \in Children, p \in PropsArgs}
    \cup {setPreviewModeCustomer(c) : c \in Customers}

----------------------------------------------------------------------------
(* GlobalProvider: the derived flag and the three effects *)

iframesShouldBeHidden(s) == s.iframesHidden \/ s.mobileMenuOpen \/ s.searchOpen

\* a bug the hydration effect could have: the guard is inverted
HydrationEffect_GuardInverted(closure) ==
    IF closure.isHydrated THEN <<setIsHydrated(TRUE)>> ELSE <<>>

\* The hydration effect (deps []): the actions it dispatches, given the
\* state of the render it closes over.
HydrationEffect(closure) ==
    IF closure.isHydrated THEN <<>> ELSE <<setIsHydrated(TRUE)>>

\* a bug the cart-ready effect could have: the fallback timer is scheduled
\* only while the cart is idle
CartReadyEffect_NoFallback(closure, idle) ==
    IF idle /\ ~closure.isCartReady
    THEN [dispatch |-> <<setIsCartReady(TRUE)>>, schedule |-> FALSE]
    ELSE [dispatch |-> <<>>, schedule |-> idle]

\* a bug the cart-ready effect could have: the flag follows the cart's status,
\* so that it is cleared when the cart leaves idle
CartReadyEffect_FollowsStatus(closure, idle) ==
    IF idle /\ ~closure.isCartReady
    THEN [dispatch |-> <<setIsCartReady(TRUE)>>, schedule |-> FALSE]
    ELSE IF ~idle /\ closure.isCartReady
         THEN [dispatch |-> <<setIsCartReady(FALSE)>>, schedule |-> TRUE]
         ELSE [dispatch |-> <<>>, schedule |-> TRUE]

\* The cart-ready effect (deps [cartIsIdle]): either it dispatches at once or
\* it schedules the fallback timer.
CartReadyEffect(closure, idle) ==
    IF idle /\ ~closure.isCartReady
    THEN [dispatch |-> <<setIsCartReady(TRUE)>>, schedule |-> FALSE]
    ELSE [dispatch |-> <<>>, schedule |-> TRUE]

\* The callback of the fallback timer.
TimerCallback == setIsCartReady(TRUE)

\* The iframe-visibility effect (deps [iframesShouldBeHidden]): the classes
\* of the document's iframes after it has run.
IframeEffect(closure, frames) ==
    IF ~closure.isHydrated THEN frames
    ELSE IF iframesShouldBeHidden(closure)
         THEN [i \in DOMAIN frames |-> TRUE]
         ELSE [i \in DOMAIN frames |-> FALSE]

\* The commit of a re-render: the iframe-visibility effect runs again only
\* when its dependency differs from the one of the previous render.
Commit(previousDep, s, frames) ==
    IF iframesShouldBeHidden(s) # previousDep THEN IframeEffect(s, frames) ELSE frames

----------------------------------------------------------------------------
(* dispatch *)

NoError == "none"
NoAction == [type |-> "NONE"]

\* the state useReducer holds after dispatch(action): unchanged when the
\* reducer throws
StateAfter(s, action) ==
    LET r == reducer(s, action) IN IF Threw(r) THEN s ELSE r

ErrorOf(s, action) ==
    LET r == reducer(s, action) IN IF Threw(r) THEN r.thrown ELSE NoError

RECURSIVE StateAfterAll(_, _)
StateAfterAll(s, queue) ==
    IF queue = <<>> THEN s
    ELSE StateAfterAll(StateAfter(s, Head(queue)), Tail(queue))

\* the ms waited for isCartReady after a step that leaves state s, ran the
\* cart-ready effect or not, and took dt ms
NextWaited(s, ranEffect, dt) ==
    IF s.isCartReady THEN -1
    ELSE IF waited >= 0 THEN waited + dt
    ELSE IF ranEffect THEN 0
    ELSE -1

\* a bug the hydration effect could have: no dependency array, so that it
\* runs after every render
HydrationEffectReruns_NoDeps(before, after) == TRUE

\* The hydration effect's dependency array is []: no re-render runs it again.
HydrationEffectReruns(before, after) == FALSE

\* what the hydration effect dispatches after the re-render from before to after
HydrationRerun(before, after) ==
    IF HydrationEffectReruns(before, after) THEN HydrationEffect(after) ELSE <<>>

----------------------------------------------------------------------------
(* The mounted store *)

\* the state of the first render, which the mount effects close over
FirstRender == InitialState(state.settings, state.isPreviewModeEnabled, cartIsIdle)

Init ==
    /\ cartIsIdle \in BOOLEAN
    /\ \E data \in LoaderData :
          state = InitialState(data.settings, data.isPreviewModeEnabled, cartIsIdle)
    /\ timers = <<>>
    /\ iframes = [i \in IframeIds |-> FALSE]
    /\ mounted = FALSE
    /\ waited = -1
    /\ hydrationDispatches = 0
    /\ prev = state
    /\ applied = NoAction
    /\ error = NoError

\* A consumer calls an entry of the action table.  Before the provider's own
\* mount effects have run (a descendant's mount effect), the action is only
\* queued: it is reduced in the re-render that follows the mount effects.
Call(action) ==
    /\ LET reduced == StateAfter(state, action)
           again == IF mounted THEN HydrationRerun(state, reduced) ELSE <<>>
       IN /\ state' = StateAfterAll(reduced, again)
          /\ hydrationDispatches' = hydrationDispatches + Len(again)
    /\ error' = ErrorOf(state, action)
    /\ iframes' = IF mounted
                  THEN Commit(iframesShouldBeHidden(state), state', iframes)
                  ELSE iframes
    /\ waited' = NextWaited(state', FALSE, 0)
    /\ UNCHANGED <<cartIsIdle, timers, mounted, prev, applied>>

\* The provider's effects run after the first render, in source order, all
\* closing over the first render's state; then the re-render reduces what was
\* dispatched and commits.
Mount ==
    /\ ~mounted
    /\ LET cart == CartReadyEffect(FirstRender, cartIsIdle)
           queue == HydrationEffect(FirstRender) \o cart.dispatch
       IN /\ state' = StateAfterAll(state, queue)
          /\ timers' = IF cart.schedule THEN Append(timers, FallbackDelay) ELSE timers
          /\ iframes' = Commit(iframesShouldBeHidden(FirstRender), state',
                               IframeEffect(FirstRender, iframes))
          /\ hydrationDispatches' = Len(HydrationEffect(FirstRender))
    /\ mounted' = TRUE
    /\ waited' = NextWaited(state', TRUE, 0)
    /\ UNCHANGED <<cartIsIdle, prev, applied, error>>

\* a change the effect could have: a cleanup that clears the pending timer, so
\* that a new run of the effect cancels the timers of the earlier runs
CartStatusChange_CancelsPending ==
    /\ mounted
    /\ cartIsIdle' = ~cartIsIdle
    /\ LET cart == CartReadyEffect(state, cartIsIdle')
       IN /\ state' = StateAfterAll(state, cart.dispatch)
          /\ timers' = IF cart.schedule THEN <<FallbackDelay>> ELSE <<>>
    /\ iframes' = Commit(iframesShouldBeHidden(state), state', iframes)
    /\ waited' = NextWaited(state', TRUE, 0)
    /\ UNCHANGED <<mounted, hydrationDispatches, prev, applied, error>>

\* The cart's status enters or leaves 'idle': the provider re-renders and the
\* cart-ready effect runs again.
CartStatusChange ==
    /\ mounted
    /\ cartIsIdle' = ~cartIsIdle
    /\ LET cart == CartReadyEffect(state, cartIsIdle')
           reduced == StateAfterAll(state, cart.dispatch)
           again == HydrationRerun(state, reduced)
       IN /\ cart.schedule => Len(timers) < MaxTimers
          /\ state' = StateAfterAll(reduced, again)
          /\ hydrationDispatches' = hydrationDispatches + Len(again)
          /\ timers' = IF cart.schedule THEN Append(timers, FallbackDelay) ELSE timers
    /\ iframes' = Commit(iframesShouldBeHidden(state), state', iframes)
    /\ waited' = NextWaited(state', TRUE, 0)
    /\ UNCHANGED <<mounted, prev, applied, error>>

\* A fallback timer that is due runs its callback.
TimerFire ==
    /\ timers # <<>>
    /\ Head(timers) <= 0
    /\ LET reduced == StateAfter(state, TimerCallback)
           again == HydrationRerun(state, reduced)
       IN /\ state' = StateAfterAll(reduced, again)
          /\ hydrationDispatches' = hydrationDispatches + Len(again)
    /\ timers' = Tail(timers)
    /\ iframes' = Commit(iframesShouldBeHidden(state), state', iframes)
    /\ waited' = NextWaited(state', FALSE, 0)
    /\ UNCHANGED <<cartIsIdle, mounted, prev, applied, error>>

\* Time passes, TickMs at a time; a timer that is due runs before the clock
\* advances further.  With no timer pending and nothing waited for, the
\* passing of time changes nothing.
Tick ==
    /\ mounted
    /\ timers # <<>> \/ waited >= 0
    /\ waited <= FallbackDelay
    /\ \A i \in DOMAIN timers : timers[i] > 0
    /\ timers' = [i \in DOMAIN timers |-> timers[i] - TickMs]
    /\ waited' = NextWaited(state, FALSE, TickMs)
    /\ UNCHANGED <<state, cartIsIdle, iframes, mounted, hydrationDispatches, prev,
                   applied, error>>

Next ==
    \/ \E action \in actionsOther : Call(action)
    \/ \E action \in actionsBoolean : Call(action)
    \/ Mount
    \/ CartStatusChange
    \/ TimerFire
    \/ Tick

Spec == Init /\ [][Next]_vars

----------------------------------------------------------------------------
(* The reducer alone, applied to any state of its type *)

StoredProps == {Spread(p) : p \in PropsArgs}

GlobalStates ==
    [cartOpen : BOOLEAN,
     desktopMenuOpen : BOOLEAN,
     iframesHidden : BOOLEAN,
     mobileMenuOpen : BOOLEAN,
     modal : [children : Children, props : StoredProps],
     promobarOpen : BOOLEAN,
     searchOpen : BOOLEAN,
     previewModeCustomer : Customers,
     isHydrated : BOOLEAN,
     settings : {d.settings : d \in LoaderData},
     isPreviewModeEnabled : {FALSE},
     isCartReady : BOOLEAN]

\* action objects of a kind the switch has no case for
UnknownActions == {[type |-> "TOGGLE_CART"], [type |-> "open_cart"]}

InitReducer ==
    /\ state \in GlobalStates
    /\ cartIsIdle = FALSE
    /\ timers = <<>>
    /\ iframes = [i \in IframeIds |-> FALSE]
    /\ mounted = TRUE
    /\ waited = -1
    /\ hydrationDispatches = 1
    /\ prev = state
    /\ applied = NoAction
    /\ error = NoError

\* reducer(state, action), as useReducer's dispatch applies it: one
\* application per behaviour, to every state and action of InitReducer
Apply(action) ==
    /\ applied = NoAction
    /\ prev' = state
    /\ applied' = action
    /\ state' = StateAfter(state, action)
    /\ error' = ErrorOf(state, action)
    /\ UNCHANGED <<cartIsIdle, timers, iframes, mounted, waited, hydrationDispatches>>

NextReducer ==
    \/ \E action \in actionsOther \cup UnknownActions : Apply(action)
    \/ \E action \in actionsBoolean : Apply(action)

SpecReducer == InitReducer /\ [][NextReducer]_vars

----------------------------------------------------------------------------
(* Properties *)

\* x != null (loose): false for null and for undefined
NotNullish(v) == v.kind \notin {"null", "undefined"}

\* the panels whose indicator is true in s
OpenPanels(s) ==
    {p \in {"cart", "desktopMenu", "mobileMenu", "search", "modal"} :
        \/ p = "cart" /\ s.cartOpen
        \/ p = "desktopMenu" /\ s.desktopMenuOpen
        \/ p = "mobileMenu" /\ s.mobileMenuOpen
        \/ p = "search" /\ s.searchOpen
        \/ p = "modal" /\ NotNullish(s.modal.children)}

ClosedModal == [children |-> Null, props |-> EmptyObj]

\* C1: in every reachable state of the mounted store at most one of the five
\* panel indicators (cartOpen, desktopMenuOpen, mobileMenuOpen, searchOpen,
\* modal.children != null) is true.
C1_AtMostOnePanelOpen == Cardinality(OpenPanels(state)) <= 1

C1_Witness ==
    /\ mounted
    /\ state.isHydrated
    /\ timers # <<>>
    /\ OpenPanels(state) = {"modal"}
    /\ state.modal.props = Obj({<<"a", 1>>})

\* the panel an open* action opens
PanelOf(type) ==
    CASE type = "OPEN_CART" -> "cart"
      [] type = "OPEN_DESKTOP_MENU" -> "desktopMenu"
      [] type = "OPEN_MOBILE_MENU" -> "mobileMenu"
      [] type = "OPEN_SEARCH" -> "search"
      [] type = "OPEN_MODAL" -> "modal"

OpenKinds ==
    {"OPEN_CART", "OPEN_DESKTOP_MENU", "OPEN_MOBILE_MENU", "OPEN_SEARCH", "OPEN_MODAL"}

\* the props openModal(C, P) is to store: P, and the empty mapping when P is
\* omitted
GivenProps(p) == IF p.kind = "undefined" THEN EmptyObj ELSE p

\* s with every panel closed (CLOSE_ALL) and then the panel of action set open
ClosedAllThenOpen(s, action) ==
    LET c == reducer(s, closeAll)
    IN CASE action.type = "OPEN_CART" -> [c EXCEPT !.cartOpen = TRUE]
         [] action.type = "OPEN_DESKTOP_MENU" -> [c EXCEPT !.desktopMenuOpen = TRUE]
         [] action.type = "OPEN_MOBILE_MENU" -> [c EXCEPT !.mobileMenuOpen = TRUE]
         [] action.type = "OPEN_SEARCH" -> [c EXCEPT !.searchOpen = TRUE]
         [] action.type = "OPEN_MODAL" ->
                [c EXCEPT !.modal = [children |-> action.payload.children,
                                     props |-> GivenProps(action.payload.props)]]

\* C2, as stated: from every state (several panels open included) the single
\* transition OPEN_X yields the state of CLOSE_ALL followed by setting X open,
\* in which X is open and the other four panel indicators are false/null.
C2_OpenIsCloseAllThenOpen ==
    applied.type \in OpenKinds =>
        /\ state = ClosedAllThenOpen(prev, applied)
        /\ OpenPanels(state) = {PanelOf(applied.type)}

\* C2, amended: as C2, except that after openModal the modal indicator is true
\* exactly when the given content is not null (openModal(null, P) leaves no
\* panel open).
C2_OpenIsCloseAllThenOpen_Amended ==
    applied.type \in OpenKinds =>
        /\ state = ClosedAllThenOpen(prev, applied)
        /\ OpenPanels(state) =
              IF applied.type = "OPEN_MODAL" /\ ~NotNullish(applied.payload.children)
              THEN {}
              ELSE {PanelOf(applied.type)}

C2_Witness ==
    /\ applied.type = "OPEN_CART"
    /\ {"desktopMenu", "search", "modal"} \subseteq OpenPanels(prev)
    /\ prev.modal.props = Obj({<<"a", 1>>})
    /\ OpenPanels(state) = {"cart"}

\* C3: from any prior state CLOSE_ALL yields cartOpen, desktopMenuOpen,
\* mobileMenuOpen and searchOpen false and modal = {children: null, props: {}}.
C3_CloseAllClosesAll ==
    applied.type = "CLOSE_ALL" =>
        /\ ~state.cartOpen
        /\ ~state.desktopMenuOpen
        /\ ~state.mobileMenuOpen
        /\ ~state.searchOpen
        /\ state.modal = ClosedModal

C3_Witness ==
    /\ applied.type = "CLOSE_ALL"
    /\ Cardinality(OpenPanels(prev)) = 5
    /\ prev.modal.props # EmptyObj
    /\ OpenPanels(state) = {}

\* C4: from any prior state openModal(C, P) yields modal = {children: C,
\* props: P} (an omitted P stored as the empty mapping, the previous props
\* replaced and not merged) and the four panel flags false.
C4_OpenModalStoresContent ==
    applied.type = "OPEN_MODAL" =>
        /\ state.modal = [children |-> applied.payload.children,
                          props |-> GivenProps(applied.payload.props)]
        /\ ~state.cartOpen
        /\ ~state.desktopMenuOpen
        /\ ~state.mobileMenuOpen
        /\ ~state.searchOpen

C4_Witness ==
    /\ applied.type = "OPEN_MODAL"
    /\ applied.payload.props = Obj({<<"b", 1>>})
    /\ prev.modal.props = Obj({<<"a", 1>>})
    /\ prev.searchOpen
    /\ state.modal = [children |-> Node("A"), props |-> Obj({<<"b", 1>>})]

\* the fixed set of action kinds
ActionKinds ==
    {"OPEN_CART", "CLOSE_CART", "OPEN_DESKTOP_MENU", "CLOSE_DESKTOP_MENU",
     "OPEN_MOBILE_MENU", "CLOSE_MOBILE_MENU", "OPEN_MODAL", "CLOSE_MODAL",
     "TOGGLE_PROMOBAR", "TOGGLE_IFRAMES_HIDDEN", "OPEN_SEARCH", "CLOSE_SEARCH",
     "CLOSE_ALL", "SET_PREVIEW_MODE_CUSTOMER", "SET_IS_CART_READY",
     "SET_IS_HYDRATED"}

\* C5: a dispatch of a kind outside the 16 kinds raises an error and leaves the
\* state as it was; a dispatch of a kind inside the set raises none, from
\* every state.
C5_UnknownKindThrows ==
    applied.type # NoAction.type =>
        IF applied.type \in ActionKinds
        THEN error = NoError
        ELSE error # NoError /\ state = prev

C5_Witness ==
    /\ applied.type = "TOGGLE_CART"
    /\ error = "TOGGLE_CART"
    /\ Cardinality(OpenPanels(prev)) = 2
    /\ state = prev

\* C8: closeCart, closeDesktopMenu, closeMobileMenu and closeSearch set only
\* their own flag to false, closeModal only resets modal to {children: null,
\* props: {}}; every other field is unchanged.
C8_CloseChangesOnlyItsPanel ==
    /\ applied.type = "CLOSE_CART" => state = [prev EXCEPT !.cartOpen = FALSE]
    /\ applied.type = "CLOSE_DESKTOP_MENU" => state = [prev EXCEPT !.desktopMenuOpen = FALSE]
    /\ applied.type = "CLOSE_MOBILE_MENU" => state = [prev EXCEPT !.mobileMenuOpen = FALSE]
    /\ applied.type = "CLOSE_SEARCH" => state = [prev EXCEPT !.searchOpen = FALSE]
    /\ applied.type = "CLOSE_MODAL" => state = [prev EXCEPT !.modal = ClosedModal]

C8_Witness ==
    /\ applied.type = "CLOSE_MODAL"
    /\ Cardinality(OpenPanels(prev)) = 5
    /\ OpenPanels(state) = {"cart", "desktopMenu", "mobileMenu", "search"}

\* C10: togglePromobar(b) sets promobarOpen to b and toggleIframesHidden(b)
\* sets iframesHidden to b, each leaving every other field unchanged; no other
\* action kind changes promobarOpen or iframesHidden.
C10_TogglesAreIndependent ==
    /\ applied.type = "TOGGLE_PROMOBAR" =>
            state = [prev EXCEPT !.promobarOpen = applied.payload]
    /\ applied.type = "TOGGLE_IFRAMES_HIDDEN" =>
            state = [prev EXCEPT !.iframesHidden = applied.payload]
    /\ applied.type \in ActionKinds \ {"TOGGLE_PROMOBAR", "TOGGLE_IFRAMES_HIDDEN"} =>
            /\ state.promobarOpen = prev.promobarOpen
            /\ state.iframesHidden = prev.iframesHidden

C10_Witness ==
    /\ applied.type = "TOGGLE_PROMOBAR"
    /\ applied.payload = TRUE
    /\ prev.promobarOpen
    /\ prev.iframesHidden
    /\ state = prev

\* C6: isCartReady becomes true no later than FallbackDelay ms after each run
\* of the cart-ready effect, whether or not the cart ever reports idle, and it
\* is true as soon as the cart reports idle.
C6_CartReadyWithinDelay ==
    /\ [](waited <= FallbackDelay)
    /\ [][(cartIsIdle' /\ ~cartIsIdle) => state'.isCartReady]_vars

\* the fallback timer is due FallbackDelay ms after the effect ran for a cart
\* that has not been idle
C6_Witness ==
    /\ mounted
    /\ ~cartIsIdle
    /\ ~state.isCartReady
    /\ waited = FallbackDelay
    /\ timers # <<>>
    /\ Head(timers) = 0

\* C7, as stated: isHydrated is true once the mount effects have run, and in the
\* mounted store, once true, it never returns to false, whatever the consumers
\* call (so it makes the false-to-true transition at most once).
C7_HydratedExactlyOnce ==
    [][/\ (~mounted /\ mounted') => state'.isHydrated
       /\ (mounted /\ state.isHydrated) => state'.isHydrated]_vars

\* C7, amended: isHydrated is true once the mount effects have run, and only
\* a consumer's setIsHydrated(false) returns it to false: no effect of the
\* store and no other action does.
C7_HydratedUnlessSetFalse ==
    [][/\ (~mounted /\ mounted') => state'.isHydrated
       /\ (state.isHydrated /\ ~state'.isHydrated) => Call(setIsHydrated(FALSE))]_vars

C7_Witness ==
    /\ mounted
    /\ state.isHydrated
    /\ timers = <<>>
    /\ state.searchOpen

\* C9: whenever the store is mounted and hydrated, every iframe of the document
\* carries the hiding class if and only if iframesHidden, mobileMenuOpen or
\* searchOpen is true.
C9_IframesFollowFlag ==
    (mounted /\ state.isHydrated) =>
        \A i \in IframeIds : iframes[i] = iframesShouldBeHidden(state)

\* C11: in every reachable state settings equals the value copied in from the
\* loader at construction (prev is the state of the first render): no action
\* kind and no effect of the store changes it.
C11_SettingsNeverChange ==
    /\ state.settings = prev.settings
    /\ state.settings \in {d.settings : d \in LoaderData}

C11_Witness ==
    /\ mounted
    /\ state.settings = Obj({<<"header", 1>>})
    /\ state.previewModeCustomer = Null
    /\ state.isCartReady
    /\ state.searchOpen
    /\ cartIsIdle # prev.isCartReady
    /\ timers = <<>>

\* C12: the hydration effect dispatches SET_IS_HYDRATED(true) at most once per
\* mount, whatever re-renders follow, and SET_IS_HYDRATED(true) dispatched
\* while isHydrated is true leaves every field as it is.
C12_HydrationDispatchedOnce ==
    /\ hydrationDispatches <= 1
    /\ state.isHydrated => StateAfter(state, setIsHydrated(TRUE)) = state

\* the store re-rendered with isHydrated false after the effect had run
C12_Witness ==
    /\ mounted
    /\ hydrationDispatches = 1
    /\ ~state.isHydrated
    /\ cartIsIdle # prev.isCartReady
    /\ state.mobileMenuOpen

\* a run of the cart-ready effect: at mount, and when the cart's status changes
CartReadyEffectRuns == (~mounted /\ mounted') \/ cartIsIdle' # cartIsIdle

\* C13, as stated: every run of the cart-ready effect schedules a fresh timer
\* of FallbackDelay ms, and the pending timers decrease only by firing.
C13_EveryRunSchedules ==
    [][/\ CartReadyEffectRuns => timers' = Append(timers, FallbackDelay)
       /\ Len(timers') < Len(timers) => TimerFire]_vars

\* C13, amended: every run of the cart-ready effect schedules a fresh timer of
\* FallbackDelay ms, except the run that finds the cart idle and isCartReady
\* false, which marks the cart ready at once and schedules none; no run
\* cancels a pending timer, and the pending timers decrease only by firing.
C13_RunSchedulesUnlessReadyAtOnce ==
    [][/\ CartReadyEffectRuns =>
            IF mounted /\ cartIsIdle' /\ ~state.isCartReady
            THEN timers' = timers /\ state'.isCartReady
            ELSE timers' = Append(timers, FallbackDelay)
       /\ Len(timers') < Len(timers) => TimerFire]_vars

\* two runs of the effect have each left their timer pending
C13_Witness ==
    /\ mounted
    /\ timers = <<TickMs, FallbackDelay>>

\* C14, as stated: a firing timer changes no field other than isCartReady, and
\* a redundant timer changes nothing: when isCartReady has been true since the
\* effect run that scheduled the timer (waited = -1), the firing leaves the
\* value that isCartReady has been given since.
C14_LateTimerChangesNothing ==
    [][TimerFire =>
          /\ state' = [state EXCEPT !.isCartReady = state'.isCartReady]
          /\ waited = -1 => state'.isCartReady = state.isCartReady]_vars

\* C15: the first render's state has the four panel flags false, modal =
\* {children: null, props: {}}, promobarOpen true, iframesHidden false,
\* isHydrated false, previewModeCustomer undefined, and isCartReady equal to
\* whether the cart is idle at mount.
C15_InitialState ==
    /\ ~prev.cartOpen
    /\ ~prev.desktopMenuOpen
    /\ ~prev.mobileMenuOpen
    /\ ~prev.searchOpen
    /\ prev.modal = ClosedModal
    /\ prev.promobarOpen
    /\ ~prev.iframesHidden
    /\ ~prev.isHydrated
    /\ prev.previewModeCustomer = Undefined
    /\ ~mounted => prev.isCartReady = cartIsIdle

C15_Witness ==
    /\ ~mounted
    /\ state = prev
    /\ cartIsIdle
    /\ state.isCartReady
    /\ state.isPreviewModeEnabled

\* C16: no effect of the store sets isCartReady to false: only a consumer's
\* setIsCartReady(false) returns it to false, also after the cart has left
\* idle.
C16_OnlyConsumerClearsCartReady ==
    [][(state.isCartReady /\ ~state'.isCartReady) => Call(setIsCartReady(FALSE))]_vars

\* the cart was idle at mount and has left idle; both runs' timers are pending
C16_Witness ==
    /\ mounted
    /\ prev.isCartReady
    /\ ~cartIsIdle
    /\ state.isCartReady
    /\ timers = <<FallbackDelay, FallbackDelay>>

\* C17: setPreviewModeCustomer(c), setIsCartReady(b) and setIsHydrated(b) set
\* their own field to the payload and leave every other field, the five panel
\* indicators included, unchanged, from any state.
C17_SettersChangeOnlyTheirField ==
    /\ applied.type = "SET_PREVIEW_MODE_CUSTOMER" =>
            state = [prev EXCEPT !.previewModeCustomer = applied.payload]
    /\ applied.type = "SET_IS_CART_READY" =>
            state = [prev EXCEPT !.isCartReady = applied.payload]
    /\ applied.type = "SET_IS_HYDRATED" =>
            state = [prev EXCEPT !.isHydrated = applied.payload]

C17_Witness ==
    /\ applied.type = "SET_IS_CART_READY"
    /\ applied.payload = FALSE
    /\ prev.isCartReady
    /\ prev.isHydrated
    /\ Cardinality(OpenPanels(prev)) = 3
    /\ ~state.isCartReady
    /\ state.isHydrated

====
